---- MODULE Spec2Model ----
(***************************************************************************)
(* quickstitch: the splitpoint finder (find_splitpoints) and the exporter  *)
(* (split_image) of src/stitcher/image_splitter.rs, driven through the     *)
(* Stitcher of src/lib.rs.                                                 *)
(*                                                                         *)
(* A strip is a sequence of rows (row 0 first), a row a sequence of pixels *)
(* and a pixel its luma value 0..255 (what Pixel::to_luma yields).         *)
(***************************************************************************)
EXTENDS Integers, Sequences, FiniteSets, TLC

VARIABLES image, max_height, min_height, scan_interval, sensitivity,
          splitpoints, cursor, iterations, pc,
          debug, output_filetype, output, pages, files, result,
          output_directory, exports,
          entries, sort, paths, width, ignore_unloadable,
          decoded, completion, load_result

finderVars == <<splitpoints, cursor, iterations>>

paramVars == <<image, max_height, min_height, scan_interval, sensitivity>>

exportVars == <<debug, output_filetype, output, pages, files, result,
                output_directory, exports>>

loaderVars == <<entries, sort, paths, width, ignore_unloadable,
                decoded, completion, load_result>>

vars == <<image, max_height, min_height, scan_interval, sensitivity,
          splitpoints, cursor, iterations, pc,
          debug, output_filetype, output, pages, files, result,
          output_directory, exports,
          entries, sort, paths, width, ignore_unloadable,
          decoded, completion, load_result>>

-----------------------------------------------------------------------------
(* Bounds of the finder's inputs.                                          *)

MaxRows == 5
MaxMaxHeight == 4
MaxScanInterval == 2
MaxIterations == 9

(* Bounds of the exporter's inputs: the height of the strips it is given,  *)
(* and how many page tasks the environment lets fail in one export.        *)
MaxExportRows == 7
MaxFaults == 1

(* How many times export is called on one Stitched value, and the height   *)
(* of the strips it is called on repeatedly.                               *)
MaxExports == 2
MaxReexportRows == 4

(* Bounds of the loader's inputs: how many sources it is given, and how    *)
(* many when the loaded strip goes on to stitch and export; the heights    *)
(* stitch is then called with.                                             *)
MaxSources == 3
MaxStitcherSources == 2
MaxStitchHeight == 2

(* The height of the strips on which a window scans rows that an earlier   *)
(* window has scanned already, and the largest max_height they are cut     *)
(* with.                                                                   *)
MaxRescanRows == 7
MaxRescanHeight == 4

(* The same for pages tall enough that windows overlap although            *)
(* min_height is at least 1.                                               *)
MaxTallRows == 10
MaxTallHeight == 6

(* The height of the strips that the numbering of the output files is      *)
(* checked on (a strip of 17 rows can be cut into 9 pages).                *)
MaxNumberedRows == 17

(* Every strip of the model is StripWidth pixels wide.                     *)
StripWidth == 2

U8MAX == 255

(* The rows a strip of the finder specification is built from: a uniform   *)
(* row, a mildly rough row and a row with the largest possible difference. *)
RowKinds ==
    { [j \in 1..StripWidth |-> 0],
      [j \in 1..StripWidth |-> IF j = 1 THEN 0 ELSE 100],
      [j \in 1..StripWidth |-> IF j = 1 THEN U8MAX ELSE 0] }

Sensitivities == {0, 155, 255}

-----------------------------------------------------------------------------
(* Helpers                                                                 *)

Min(a, b) == IF a <= b THEN a ELSE b

Max(a, b) == IF a >= b THEN a ELSE b

AbsDiff(a, b) == IF a >= b THEN a - b ELSE b - a

StripsOfHeight(h) == [1..h -> RowKinds]

height(img) == Len(img)

-----------------------------------------------------------------------------
(* Splitpoint                                                              *)

Cut(row) == [kind |-> "Cut", row |-> row]

Skipped(row) == [kind |-> "Skipped", row |-> row]

is_cut(sp) == sp.kind = "Cut"

get(sp) == sp.row

switch(sp) == IF sp.kind = "Cut" THEN Skipped(sp.row) ELSE Cut(sp.row)

(* splitpoints.iter().filter(is_cut).map(get): the rows of the Cut         *)
(* elements, in sequence order.                                            *)
RECURSIVE CutRowsOf(_)
CutRowsOf(sps) ==
    IF sps = <<>> THEN <<>>
    ELSE IF is_cut(Head(sps)) THEN <<get(Head(sps))>> \o CutRowsOf(Tail(sps))
    ELSE CutRowsOf(Tail(sps))

-----------------------------------------------------------------------------
(* The iterator chain of find_splitpoints                                  *)

(* fold(0, |a, (pixel_a, pixel_b)| a.max(abs_diff)) over tuple_windows     *)
RECURSIVE FoldMaxDiff(_, _, _)
FoldMaxDiff(row, i, a) ==
    IF i >= Len(row) THEN a
    ELSE FoldMaxDiff(row, i + 1, Max(a, AbsDiff(row[i], row[i + 1])))

MaxPixelDiff(row) == FoldMaxDiff(row, 1, 0)

(* .rows().map(..).enumerate(): pairs <<row index, max pixel diff>>        *)
Enumerate(img) == [i \in 1..Len(img) |-> <<i - 1, MaxPixelDiff(img[i])>>]

Take(s, n) == SubSeq(s, 1, Min(n, Len(s)))

Rev(s) == [i \in 1..Len(s) |-> s[Len(s) + 1 - i]]

StepBy(s, step) == [i \in 1..((Len(s) + step - 1) \div step) |-> s[(i - 1) * step + 1]]

TupleWindows3(s) ==
    [i \in 1..Max(Len(s) - 2, 0) |-> <<s[i], s[i + 1], s[i + 2]>>]

row_max_pixel_diffs_NoCursor(img, cur, target_height, minh, interval) ==
    TupleWindows3(StepBy(Take(Rev(Enumerate(img)), target_height - minh), interval))

row_max_pixel_diffs(img, cur, target_height, minh, interval) ==
    TupleWindows3(StepBy(Take(Rev(Take(Enumerate(img), cur)),
                              target_height - minh), interval))

-----------------------------------------------------------------------------
(* The body of the loop of find_splitpoints                                *)

NoSplitpoint == <<>>

(* match min_splitpoint { Some(prev) => if prev.1 > curr_max { .. = Some(a) } *)
(*                        None => .. = Some(a) }                            *)
UpdateMin_Always(prev, a, curr_max) == a

UpdateMin(prev, a, curr_max) ==
    IF prev = NoSplitpoint THEN a
    ELSE IF prev[2] > curr_max THEN a
    ELSE prev

RECURSIVE ScanTriples_NoBreak(_, _, _, _, _)
ScanTriples_NoBreak(triples, k, st, limit, target_height) ==
    IF k > Len(triples) THEN st
    ELSE LET a == triples[k][1]
             b == triples[k][2]
             c == triples[k][3]
         IN  IF a[2] <= limit /\ b[2] <= limit /\ c[2] <= limit
             THEN ScanTriples_NoBreak(triples, k + 1,
                                      [st EXCEPT !.splitpoints = Append(@, Cut(a[1])),
                                                 !.cursor = a[1] + target_height,
                                                 !.clean_splitpoint_found = TRUE],
                                      limit, target_height)
             ELSE LET curr_max == Max(a[2], Max(b[2], c[2]))
                      newmin == UpdateMin(st.min_splitpoint, a, curr_max)
                  IN  ScanTriples_NoBreak(triples, k + 1,
                                          [st EXCEPT !.splitpoints = Append(@, Skipped(a[1])),
                                                     !.min_splitpoint = newmin],
                                          limit, target_height)

(* The for loop over the triples: st is the record of the locals           *)
(* splitpoints, cursor, clean_splitpoint_found and min_splitpoint.         *)
RECURSIVE ScanTriples(_, _, _, _, _)
ScanTriples(triples, k, st, limit, target_height) ==
    IF k > Len(triples) THEN st
    ELSE LET a == triples[k][1]
             b == triples[k][2]
             c == triples[k][3]
         IN  IF a[2] <= limit /\ b[2] <= limit /\ c[2] <= limit
             THEN [st EXCEPT !.splitpoints = Append(@, Cut(a[1])),
                             !.cursor = a[1] + target_height,
                             !.clean_splitpoint_found = TRUE]
             ELSE LET curr_max == Max(a[2], Max(b[2], c[2]))
                      newmin == UpdateMin(st.min_splitpoint, a, curr_max)
                  IN  ScanTriples(triples, k + 1,
                                  [st EXCEPT !.splitpoints = Append(@, Skipped(a[1])),
                                             !.min_splitpoint = newmin],
                                  limit, target_height)

SwitchLast_FromTheFront(sps, row) ==
    LET hits == {i \in 1..Len(sps) : get(sps[i]) = row}
    IN  IF hits = {} THEN sps
        ELSE LET first == CHOOSE i \in hits : \A j \in hits : i <= j
             IN  [sps EXCEPT ![first] = switch(@)]

(* splitpoints.iter_mut().rev().find(|s| s.get() == row).map(switch)       *)
SwitchLast(sps, row) ==
    LET hits == {i \in 1..Len(sps) : get(sps[i]) = row}
    IN  IF hits = {} THEN sps
        ELSE LET last == CHOOSE i \in hits : \A j \in hits : j <= i
             IN  [sps EXCEPT ![last] = switch(@)]

Promote(st, target_height) ==
    IF ~st.clean_splitpoint_found /\ st.min_splitpoint # NoSplitpoint
    THEN [st EXCEPT !.splitpoints = SwitchLast(@, st.min_splitpoint[1]),
                    !.cursor = st.min_splitpoint[1] + target_height]
    ELSE st

LoopBody_LimitIsSensitivity(img, sps, cur, maxh, minh, interval, sens) ==
    LET target_height == maxh + 1
        limit == sens
        triples == row_max_pixel_diffs(img, cur, target_height, minh, interval)
        st0 == [splitpoints |-> sps, cursor |-> cur,
                clean_splitpoint_found |-> FALSE,
                min_splitpoint |-> NoSplitpoint]
    IN  Promote(ScanTriples(triples, 1, st0, limit, target_height), target_height)

LoopBody(img, sps, cur, maxh, minh, interval, sens) ==
    LET target_height == maxh + 1
        limit == U8MAX - sens
        triples == row_max_pixel_diffs(img, cur, target_height, minh, interval)
        st0 == [splitpoints |-> sps, cursor |-> cur,
                clean_splitpoint_found |-> FALSE,
                min_splitpoint |-> NoSplitpoint]
    IN  Promote(ScanTriples(triples, 1, st0, limit, target_height), target_height)

-----------------------------------------------------------------------------
(* The state of the exporter before split_image is called: no export       *)
(* parameters, no page task, an empty output directory.                    *)

NoPage == [built |-> FALSE, rows |-> <<>>]

Built(rows) == [built |-> TRUE, rows |-> rows]

Pending == <<"pending">>

Ok == <<"Ok">>

Err(e) == <<"Err", e>>

Panicked == <<"panicked">>

NoResult == <<"none">>

NotExporting ==
    /\ debug = FALSE
    /\ output_filetype = "none"
    /\ output = <<>>
    /\ pages = <<>>
    /\ files = {}
    /\ result = NoResult
    /\ output_directory = "none"
    /\ exports = 0

(* The state of the loader when the strip is handed to find_splitpoints    *)
(* directly: no directory listing, no source, no decode task.              *)
NotLoading ==
    /\ entries = <<>>
    /\ sort = "none"
    /\ paths = <<>>
    /\ width = <<>>
    /\ ignore_unloadable = FALSE
    /\ decoded = <<>>
    /\ completion = <<>>
    /\ load_result = NoResult

-----------------------------------------------------------------------------
(* image_loader.rs: the files the loader is given                          *)

(* A file name is the sequence of the code points of its characters.       *)
Digit(d) == 48 + d

FullStop == 46

jpg == <<106, 112, 103>>

png == <<112, 110, 103>>

jpeg == <<106, 112, 101, 103>>

webp == <<119, 101, 98, 112>>

txt == <<116, 120, 116>>

NumberedName(digits, ext) ==
    [i \in 1..Len(digits) |-> Digit(digits[i])] \o <<FullStop>> \o ext

(* A file: its name, the dimensions its header declares, a tone that tells *)
(* its pixels from those of the other files, and whether it can be read:   *)
(* "good", "truncated" (the header is readable, the decoder fails) or      *)
(* "unreadable" (neither the dimensions nor the pixels can be read, as for *)
(* a file of size 0).                                                      *)
File(name, w, h, kind, tone) ==
    [name |-> name, w |-> w, h |-> h, kind |-> kind, tone |-> tone]

SourceFiles ==
    { File(NumberedName(<<8>>, jpg), StripWidth, 2, "good", 10),
      File(NumberedName(<<9>>, jpg), StripWidth + 1, 3, "good", 20),
      File(NumberedName(<<1, 0>>, jpg), StripWidth, 1, "good", 30),
      File(NumberedName(<<0, 1, 0>>, png), 1, 1, "truncated", 40),
      File(NumberedName(<<1, 2>>, jpg), 1, 1, "unreadable", 50),
      File(NumberedName(<<7>>, txt), StripWidth, 1, "good", 60) }

(* The sequences of at most n elements of S, and those without repetition. *)
SeqsUpTo(S, n) == UNION {[1..k -> S] : k \in 0..n}

Distinct(s) == \A i, j \in 1..Len(s) : i # j => s[i] # s[j]

(* Option<u32>: None is the empty sequence, Some(v) is <<v>>.              *)
None == <<>>

Some(v) == <<v>>

-----------------------------------------------------------------------------
(* find_images: the filter on the extension and the two sort orders        *)

(* Path::extension: what follows the last full stop of the file name, if   *)
(* there is one and it is not the first character.                         *)
extension(name) ==
    LET stops == {i \in 2..Len(name) : name[i] = FullStop}
    IN  IF stops = {} THEN None
        ELSE LET last == CHOOSE i \in stops : \A j \in stops : j <= i
             IN  Some(SubSeq(name, last + 1, Len(name)))

IsImage(name) ==
    extension(name) \in {Some(jpg), Some(webp), Some(jpeg), Some(png)}

(* .filter(|path| match path.extension() { .. }) on the entries            *)
RECURSIVE ImagesOf(_)
ImagesOf(listing) ==
    IF listing = <<>> THEN <<>>
    ELSE IF IsImage(Head(listing).name)
         THEN <<Head(listing)>> \o ImagesOf(Tail(listing))
         ELSE ImagesOf(Tail(listing))

cmp(a, b) == IF a < b THEN "Less" ELSE IF a > b THEN "Greater" ELSE "Equal"

(* Ord of two paths of one directory: the file names, byte by byte.        *)
RECURSIVE PathCompare(_, _, _)
PathCompare(l, r, i) ==
    IF i > Len(l) /\ i > Len(r) THEN "Equal"
    ELSE IF i > Len(l) THEN "Less"
    ELSE IF i > Len(r) THEN "Greater"
    ELSE IF l[i] # r[i] THEN cmp(l[i], r[i])
    ELSE PathCompare(l, r, i + 1)

IsDigit(s, i) == i <= Len(s) /\ s[i] \in Digit(0)..Digit(9)

(* natord::compare: runs of digits are compared as numbers (the longer run *)
(* is the greater, runs of one length by their first difference), except   *)
(* that a run is compared digit by digit from the left when it starts with *)
(* a zero on either side. (It also skips whitespace; the file names here   *)
(* hold none.)                                                             *)
RECURSIVE NatordNonDigits(_, _, _, _)
RECURSIVE NatordDigitsLeft(_, _, _, _)
RECURSIVE NatordDigitsRight(_, _, _, _, _)
NatordDigitsLeft(l, r, i, j) ==
    IF IsDigit(l, i + 1) /\ IsDigit(r, j + 1)
    THEN IF l[i + 1] # r[j + 1] THEN cmp(l[i + 1], r[j + 1])
         ELSE NatordDigitsLeft(l, r, i + 1, j + 1)
    ELSE IF IsDigit(l, i + 1) THEN "Greater"
    ELSE IF IsDigit(r, j + 1) THEN "Less"
    ELSE NatordNonDigits(l, r, i + 1, j + 1)

NatordDigitsRight(l, r, i, j, lastcmp) ==
    IF IsDigit(l, i + 1) /\ IsDigit(r, j + 1)
    THEN NatordDigitsRight(l, r, i + 1, j + 1,
                           IF lastcmp = "Equal" THEN cmp(l[i + 1], r[j + 1])
                           ELSE lastcmp)
    ELSE IF IsDigit(l, i + 1) THEN "Greater"
    ELSE IF IsDigit(r, j + 1) THEN "Less"
    ELSE IF lastcmp # "Equal" THEN lastcmp
    ELSE NatordNonDigits(l, r, i + 1, j + 1)

NatordNonDigits(l, r, i, j) ==
    IF i <= Len(l) /\ j <= Len(r)
    THEN IF IsDigit(l, i) /\ IsDigit(r, j)
         THEN IF l[i] = Digit(0) \/ r[j] = Digit(0)
              THEN IF l[i] # r[j] THEN cmp(l[i], r[j])
                   ELSE NatordDigitsLeft(l, r, i, j)
              ELSE NatordDigitsRight(l, r, i, j, cmp(l[i], r[j]))
         ELSE IF l[i] # r[j] THEN cmp(l[i], r[j])
         ELSE NatordNonDigits(l, r, i + 1, j + 1)
    ELSE IF i <= Len(l) THEN "Greater"
    ELSE IF j <= Len(r) THEN "Less"
    ELSE "Equal"

natord_compare(l, r) == NatordNonDigits(l, r, 1, 1)

Compare(order, a, b) ==
    IF order = "Logical" THEN PathCompare(a.name, b.name, 1)
    ELSE natord_compare(a.name, b.name)

(* sort / sort_by are stable: an element goes behind the elements that do  *)
(* not compare greater than it.                                            *)
RECURSIVE InsertSorted(_, _, _)
InsertSorted(sorted, x, order) ==
    IF sorted = <<>> THEN <<x>>
    ELSE IF Compare(order, Head(sorted), x) = "Greater" THEN <<x>> \o sorted
    ELSE <<Head(sorted)>> \o InsertSorted(Tail(sorted), x, order)

RECURSIVE SortBy(_, _)
SortBy(s, order) ==
    IF s = <<>> THEN <<>>
    ELSE InsertSorted(SortBy(SubSeq(s, 1, Len(s) - 1), order), s[Len(s)], order)

(* The body of find_images on a directory whose listing is `listing`.      *)
find_images(is_dir, listing, order) ==
    IF ~is_dir THEN Err("ExpectedDirectory")
    ELSE LET images == ImagesOf(listing)
         IN  IF images = <<>> THEN Err("NoImagesInDirectory")
             ELSE <<"Ok", SortBy(images, order)>>

-----------------------------------------------------------------------------
(* load_images: dimensions, target width, decoding and resizing            *)

(* image_dimensions(path): reads the header only.                          *)
image_dimensions(f) ==
    IF f.kind = "unreadable" THEN Err("ImageError") ELSE <<"Ok", <<f.w, f.h>>>>

Dimensions(ps) == [i \in 1..Len(ps) |-> image_dimensions(ps[i])]

(* .filter_map(|res| res.ok()): the values of the Ok results, in order.    *)
RECURSIVE Oks(_)
Oks(results) ==
    IF results = <<>> THEN <<>>
    ELSE IF Head(results)[1] = "Ok" THEN <<Head(results)[2]>> \o Oks(Tail(results))
    ELSE Oks(Tail(results))

(* The first Err of a sequence of results, as `?` on a sequential collect  *)
(* returns it.                                                             *)
FirstErr(results) ==
    results[CHOOSE i \in 1..Len(results) :
                /\ results[i][1] = "Err"
                /\ \A j \in 1..(i - 1) : results[j][1] # "Err"]

HasErr(results) == \E i \in 1..Len(results) : results[i][1] = "Err"

(* dimensions.iter().map(|pair| pair.0).min()                              *)
MinWidth(dims) ==
    CHOOSE m \in {dims[i][1] : i \in 1..Len(dims)} :
        \A i \in 1..Len(dims) : m <= dims[i][1]

(* The width the sources are resized to, once the dimensions are known.    *)
target_width(ps, wd) ==
    IF wd # None THEN wd[1] ELSE MinWidth(Oks(Dimensions(ps)))

(* The pixels of a source at a given size: every pixel of row r has the    *)
(* value tone + r, which stands for the source's content (resampled when   *)
(* the size is not the native one).                                        *)
Pixels(f, w, h) == [r \in 1..h |-> [j \in 1..w |-> f.tone + r]]

(* Rounding to the nearest integer of a / b, for a >= 0 and b > 0.         *)
RoundDiv(a, b) == (2 * a + b) \div (2 * b)

(* resize(width, u32::MAX, Lanczos3) keeps the aspect ratio: the ratio is  *)
(* width / w, and neither dimension of the result is below 1.              *)
resize_dimensions(w, h, nwidth) ==
    <<Max(RoundDiv(w * nwidth, w), 1), Max(RoundDiv(h * nwidth, w), 1)>>

(* The closure of the parallel map: open, decode, resize if needed.        *)
Decode(f, target) ==
    IF f.kind # "good" THEN Err("ImageError")
    ELSE IF f.w = target THEN <<"Ok", Pixels(f, f.w, f.h)>>
    ELSE LET d == resize_dimensions(f.w, f.h, target)
         IN  <<"Ok", Pixels(f, d[1], d[2])>>

-----------------------------------------------------------------------------
(* load_images: the combined strip                                         *)

Width(img) == Len(img[1])

RECURSIVE SumHeights(_)
SumHeights(images) ==
    IF images = <<>> THEN 0 ELSE Len(Head(images)) + SumHeights(Tail(images))

RgbImageNew(w, h) == [r \in 1..h |-> [j \in 1..w |-> 0]]

(* combined_image.copy_from(&i, 0, y): an error if `other` does not fit.   *)
copy_from(buf, w, other, y) ==
    IF w < Width(other) \/ Len(buf) < Len(other) + y
    THEN [ok |-> FALSE, rows |-> buf]
    ELSE [ok |-> TRUE,
          rows |-> [r \in 1..Len(buf) |->
                      IF r > y /\ r <= y + Len(other)
                      THEN [j \in 1..w |-> IF j <= Width(other) THEN other[r - y][j]
                                           ELSE buf[r][j]]
                      ELSE buf[r]]]

RECURSIVE CopyAll_NoAdvance(_, _, _, _, _)
CopyAll_NoAdvance(buf, w, images, k, height_cursor) ==
    IF k > Len(images) THEN [panicked |-> FALSE, rows |-> buf]
    ELSE LET c == copy_from(buf, w, images[k], height_cursor)
         IN  IF ~c.ok THEN [panicked |-> TRUE, rows |-> buf]
             ELSE CopyAll_NoAdvance(c.rows, w, images, k + 1, height_cursor)

(* for i in images { copy_from(..).expect(..); height_cursor += i.height() } *)
RECURSIVE CopyAll(_, _, _, _, _)
CopyAll(buf, w, images, k, height_cursor) ==
    IF k > Len(images) THEN [panicked |-> FALSE, rows |-> buf]
    ELSE LET c == copy_from(buf, w, images[k], height_cursor)
         IN  IF ~c.ok THEN [panicked |-> TRUE, rows |-> buf]
             ELSE CopyAll(c.rows, w, images, k + 1, height_cursor + Len(images[k]))

combined_image(w, images) ==
    CopyAll(RgbImageNew(w, SumHeights(images)), w, images, 1, 0)

-----------------------------------------------------------------------------
(* The Stitcher of lib.rs from Empty to Loaded; the decode tasks run in    *)
(* parallel, each one an atomic step.                                      *)

nonLoaderVars == <<image, max_height, min_height, scan_interval, sensitivity,
                   splitpoints, cursor, iterations,
                   debug, output_filetype, output, pages, files, result,
                   output_directory, exports>>

(* load_images up to the start of the parallel map.                        *)
load_images(ps) ==
    /\ paths' = ps
    /\ IF ~ignore_unloadable /\ HasErr(Dimensions(ps))
       THEN /\ load_result' = FirstErr(Dimensions(ps))
            /\ pc' = "load failed"
            /\ UNCHANGED <<decoded, completion>>
       ELSE IF width = None /\ Oks(Dimensions(ps)) = <<>>
       THEN /\ load_result' = <<"panic">>
            /\ pc' = "panicked"
            /\ UNCHANGED <<decoded, completion>>
       ELSE /\ decoded' = [i \in 1..Len(ps) |-> Pending]
            /\ completion' = <<>>
            /\ load_result' = NoResult
            /\ pc' = "loading"
    /\ UNCHANGED <<entries, sort, width, ignore_unloadable, nonLoaderVars>>

(* Stitcher<Empty>::load: the caller's list, in the caller's order.        *)
load ==
    /\ pc = "Empty"
    /\ sort = "none"
    /\ load_images(paths)

(* Stitcher<Empty>::load_dir: find_images, then load_images.               *)
load_dir ==
    /\ pc = "Empty"
    /\ sort # "none"
    /\ \E is_dir \in BOOLEAN :
          LET found == find_images(is_dir, entries, sort)
          IN  IF found[1] = "Err"
              THEN /\ load_result' = found
                   /\ pc' = "load failed"
                   /\ UNCHANGED <<entries, sort, paths, width, ignore_unloadable,
                                  decoded, completion, nonLoaderVars>>
              ELSE load_images(found[2])

DecodeTask_Push(k) ==
    /\ pc = "loading"
    /\ \A i \in 1..Len(completion) : completion[i] # k
    /\ decoded' = [decoded EXCEPT ![Len(completion) + 1] =
                       Decode(paths[k], target_width(paths, width))]
    /\ completion' = Append(completion, k)
    /\ UNCHANGED <<entries, sort, paths, width, ignore_unloadable, load_result,
                   pc, nonLoaderVars>>

(* One task of paths.par_iter().map(..): its result goes to the place of   *)
(* its path; `completion` records the order in which the tasks finish.     *)
DecodeTask(k) ==
    /\ pc = "loading"
    /\ \A i \in 1..Len(completion) : completion[i] # k
    /\ decoded' = [decoded EXCEPT ![k] =
                       Decode(paths[k], target_width(paths, width))]
    /\ completion' = Append(completion, k)
    /\ UNCHANGED <<entries, sort, paths, width, ignore_unloadable, load_result,
                   pc, nonLoaderVars>>

DecodeTasks == \E k \in 1..Len(paths) : DecodeTask(k)

LoadFails_Loaded ==
    /\ pc = "loading"
    /\ ~ignore_unloadable
    /\ \E i \in 1..Len(decoded) :
          /\ decoded[i][1] = "Err"
          /\ load_result' = decoded[i]
    /\ pc' = "Loaded"
    /\ UNCHANGED <<entries, sort, paths, width, ignore_unloadable, decoded,
                   completion, nonLoaderVars>>

(* collect::<Result<Vec<_>, _>>()?: without ignore_unloadable a failed     *)
(* task makes load return its error.                                       *)
LoadFails ==
    /\ pc = "loading"
    /\ ~ignore_unloadable
    /\ \E i \in 1..Len(decoded) :
          /\ decoded[i][1] = "Err"
          /\ load_result' = decoded[i]
    /\ pc' = "load failed"
    /\ UNCHANGED <<entries, sort, paths, width, ignore_unloadable, decoded,
                   completion, nonLoaderVars>>

(* The collected images are combined once every task has finished; the     *)
(* Stitcher becomes Loaded.                                                *)
Combine ==
    /\ pc = "loading"
    /\ \A i \in 1..Len(decoded) : decoded[i] # Pending
    /\ ignore_unloadable \/ ~HasErr(decoded)
    /\ LET strip == combined_image(target_width(paths, width), Oks(decoded))
       IN  IF strip.panicked
           THEN /\ load_result' = <<"panic">>
                /\ pc' = "panicked"
                /\ UNCHANGED image
           ELSE /\ load_result' = Ok
                /\ pc' = "Loaded"
                /\ image' = strip.rows
    /\ UNCHANGED <<entries, sort, paths, width, ignore_unloadable, decoded,
                   completion, max_height, min_height, scan_interval,
                   sensitivity, finderVars, exportVars>>

-----------------------------------------------------------------------------
(* find_splitpoints as a state machine                                     *)

(* The state after `let mut cursor = target_height;`, for every strip and  *)
(* every parameter set with min_height <= max_height.                      *)
InitFind ==
    /\ \E h \in 0..MaxRows : image \in StripsOfHeight(h)
    /\ max_height \in 0..MaxMaxHeight
    /\ min_height \in 0..max_height
    /\ scan_interval \in 0..MaxScanInterval
    /\ sensitivity \in Sensitivities
    /\ splitpoints = <<Cut(0)>>
    /\ cursor = max_height + 1
    /\ iterations = 0
    /\ pc = "loop"
    /\ NotExporting
    /\ NotLoading

(* One iteration of the loop; step_by panics on a zero step.               *)
Iterate ==
    /\ pc = "loop"
    /\ iterations < MaxIterations
    /\ iterations' = iterations + 1
    /\ IF scan_interval = 0
       THEN /\ pc' = "panicked"
            /\ UNCHANGED <<splitpoints, cursor>>
       ELSE LET st == LoopBody(image, splitpoints, cursor, max_height,
                               min_height, scan_interval, sensitivity)
            IN  /\ splitpoints' = st.splitpoints
                /\ cursor' = st.cursor
                /\ pc' = IF st.cursor > height(image) THEN "break" ELSE "loop"
    /\ UNCHANGED <<paramVars, exportVars, loaderVars>>

Return_LastRow ==
    /\ pc = "break"
    /\ splitpoints' = Append(splitpoints, Cut(Max(height(image) - 1, 0)))
    /\ pc' = "Stitched"
    /\ UNCHANGED <<paramVars, cursor, iterations, exportVars, loaderVars>>

(* splitpoints.push(Cut(image.height())); the Stitcher becomes Stitched.   *)
Return ==
    /\ pc = "break"
    /\ splitpoints' = Append(splitpoints, Cut(height(image)))
    /\ pc' = "Stitched"
    /\ UNCHANGED <<paramVars, cursor, iterations, exportVars, loaderVars>>

NextFind == Iterate \/ Return

SpecFind == InitFind /\ [][NextFind]_vars

(* find_splitpoints on strips and with pages tall enough for a window to   *)
(* reach back over rows that the window before it has scanned.             *)
InitRescan ==
    /\ \E h \in 0..MaxRescanRows : image \in StripsOfHeight(h)
    /\ max_height \in 3..MaxRescanHeight
    /\ min_height \in 0..1
    /\ scan_interval = 1
    /\ sensitivity \in {155, U8MAX}
    /\ splitpoints = <<Cut(0)>>
    /\ cursor = max_height + 1
    /\ iterations = 0
    /\ pc = "loop"
    /\ NotExporting
    /\ NotLoading

SpecRescan == InitRescan /\ [][NextFind]_vars

(* The same with min_height >= 1, on strips of uniform rows and rows with  *)
(* the largest possible difference.                                        *)
TallRowKinds == {row \in RowKinds : MaxPixelDiff(row) \in {0, U8MAX}}

InitTallPages ==
    /\ \E h \in 0..MaxTallRows : image \in [1..h -> TallRowKinds]
    /\ max_height \in 4..MaxTallHeight
    /\ min_height \in 1..2
    /\ scan_interval \in 1..MaxScanInterval
    /\ sensitivity \in {0, U8MAX}
    /\ splitpoints = <<Cut(0)>>
    /\ cursor = max_height + 1
    /\ iterations = 0
    /\ pc = "loop"
    /\ NotExporting
    /\ NotLoading

SpecTallPages == InitTallPages /\ [][NextFind]_vars

-----------------------------------------------------------------------------
(* split_image: naming of the output files                                 *)

RECURSIVE ilog10(_)
ilog10(num) == IF num < 10 THEN 0 ELSE 1 + ilog10(num \div 10)

(* num.checked_ilog10().unwrap_or(0) as usize + 1                          *)
get_num_digits(num) == (IF num = 0 THEN 0 ELSE ilog10(num)) + 1

(* format!("{}", n): the decimal digits of n, most significant first       *)
RECURSIVE Decimal(_)
Decimal(n) == IF n < 10 THEN <<n>> ELSE Decimal(n \div 10) \o <<n % 10>>

(* "0".repeat(n)                                                           *)
Repeat0(n) == [i \in 1..n |-> 0]

ImageOutputFormats == {"Png", "Webp", "Jpeg", "Jpg"}

Extension(filetype) ==
    CASE filetype = "Png" -> "png"
      [] filetype = "Jpeg" -> "jpeg"
      [] filetype = "Webp" -> "webp"
      [] filetype = "Jpg" -> "jpg"

cut_splitpoints(sps) == CutRowsOf(sps)

max_digits(sps) == get_num_digits(Len(cut_splitpoints(sps)))

(* cut_splitpoints.windows(2).map(|slice| (slice[0], slice[1] - slice[0])) *)
Jobs(sps) ==
    LET cuts == cut_splitpoints(sps)
    IN  [i \in 1..Max(Len(cuts) - 1, 0) |->
            [start |-> cuts[i], length |-> cuts[i + 1] - cuts[i]]]

(* The zero padding is a usize subtraction: it cannot go below zero.       *)
PaddingUnderflows(sps, index) == max_digits(sps) < get_num_digits(index + 1)

output_filepath_ZeroBased(sps, index, filetype) ==
    [stem |-> Repeat0(max_digits(sps) - get_num_digits(index)) \o Decimal(index),
     ext |-> Extension(filetype)]

output_filepath(sps, index, filetype) ==
    [stem |-> Repeat0(max_digits(sps) - get_num_digits(index + 1))
                  \o Decimal(index + 1),
     ext |-> Extension(filetype)]

-----------------------------------------------------------------------------
(* split_image: the page buffers                                           *)

View_DropsLastRow(img, start, length) == SubSeq(img, start + 1, start + length - 1)

(* image.view(0, start, width, length).to_image()                          *)
View(img, start, length) == SubSeq(img, start + 1, start + length)

(* Colours of the debug lines, as pixel values outside the luma range.     *)
MarkerColour == U8MAX + 1

BoundaryColour == U8MAX + 2

(* A page buffer under construction: its rows, and whether building it    *)
(* has panicked.                                                           *)
Buffer(rows) == [panicked |-> FALSE, rows |-> rows]

(* for i in 0..width { page.put_pixel(i, row, colour) }: put_pixel panics  *)
(* on a row outside the page.                                              *)
PaintRow(page, row, colour) ==
    IF page.panicked \/ StripWidth = 0 THEN page
    ELSE IF row < 0 \/ row >= Len(page.rows) THEN [page EXCEPT !.panicked = TRUE]
    ELSE [page EXCEPT !.rows[row + 1] = [j \in 1..StripWidth |-> colour]]

RECURSIVE SkipWhileBelow(_, _)
SkipWhileBelow(sps, start) ==
    IF sps = <<>> THEN <<>>
    ELSE IF get(Head(sps)) < start THEN SkipWhileBelow(Tail(sps), start)
    ELSE sps

RECURSIVE TakeWhileBelow(_, _)
TakeWhileBelow(sps, end) ==
    IF sps = <<>> THEN <<>>
    ELSE IF get(Head(sps)) < end THEN <<Head(sps)>> \o TakeWhileBelow(Tail(sps), end)
    ELSE <<>>

(* The rows of the markers "on this page", relative to the page; a marker  *)
(* above the page start gives a negative row (the usize subtraction        *)
(* overflows).                                                             *)
skipped(sps, start, length) ==
    LET taken == TakeWhileBelow(SkipWhileBelow(sps, start), start + length)
    IN  [i \in 1..Len(taken) |-> get(taken[i]) - start]

RECURSIVE PaintRows(_, _, _)
PaintRows(page, rows, k) ==
    IF k > Len(rows) THEN page
    ELSE PaintRows(PaintRow(page, rows[k], MarkerColour), rows, k + 1)

(* The page a task builds: the slice, and in debug mode the marker lines   *)
(* and the line at row `length`.                                           *)
BuildPage(img, sps, start, length, dbg) ==
    LET page == Buffer(View(img, start, length))
    IN  IF dbg
        THEN PaintRow(PaintRows(page, skipped(sps, start, length), 1),
                      length, BoundaryColour)
        ELSE page

-----------------------------------------------------------------------------
(* split_image as a state machine; the page tasks run in parallel, each    *)
(* one an atomic step.                                                     *)

(* The content of a file the encoder has written completely, and of one   *)
(* that was created but whose encoding failed.                             *)
Encoded(filetype, rows) == [format |-> filetype, complete |-> TRUE, rows |-> rows]

Partial(filetype) == [format |-> filetype, complete |-> FALSE, rows |-> <<>>]

(* output.into_iter().filter_map(|out| out.err()).collect()                *)
RECURSIVE Errors(_)
Errors(out) ==
    IF out = <<>> THEN <<>>
    ELSE IF Head(out)[1] = "Err" THEN <<Head(out)[2]>> \o Errors(Tail(out))
    ELSE Errors(Tail(out))

Faults(out) == Len(Errors(out))

(* File::create(path): creates the file or truncates the existing one.     *)
FileCreate(fs, path, index, content) ==
    LET old == {f \in fs : f.path = path}
    IN  (fs \ old) \cup
        {[path |-> path,
          writers |-> UNION {f.writers : f \in old} \cup {index},
          content |-> content]}

split_image_NoDirCheck ==
    /\ \E dbg \in BOOLEAN, filetype \in ImageOutputFormats, is_dir \in BOOLEAN :
          /\ debug' = dbg
          /\ output_filetype' = filetype
          /\ output_directory' = IF is_dir THEN "directory" ELSE "not a directory"
          /\ output' = [i \in 1..Len(Jobs(splitpoints)) |-> Pending]
          /\ pages' = [i \in 1..Len(Jobs(splitpoints)) |-> NoPage]
          /\ result' = NoResult
          /\ pc' = "exporting"
    /\ exports' = exports + 1
    /\ UNCHANGED <<paramVars, finderVars, files, loaderVars>>

(* Entry of split_image: the check of the output directory, and the list   *)
(* of jobs handed to the thread pool. The caller chooses the directory,    *)
(* the format and the debug flag of each call.                             *)
split_image ==
    /\ \E dbg \in BOOLEAN, filetype \in ImageOutputFormats, is_dir \in BOOLEAN :
          /\ debug' = dbg
          /\ output_filetype' = filetype
          /\ output_directory' = IF is_dir THEN "directory" ELSE "not a directory"
          /\ IF ~is_dir
             THEN /\ result' = Err(<<"DirectoryNotFound">>)
                  /\ pc' = "exported"
                  /\ output' = <<>>
                  /\ pages' = <<>>
             ELSE /\ output' = [i \in 1..Len(Jobs(splitpoints)) |-> Pending]
                  /\ pages' = [i \in 1..Len(Jobs(splitpoints)) |-> NoPage]
                  /\ result' = NoResult
                  /\ pc' = "exporting"
    /\ exports' = exports + 1
    /\ UNCHANGED <<paramVars, finderVars, files, loaderVars>>

(* Stitcher<Stitched>::export, the first call on a Stitched value.         *)
Export ==
    /\ pc = "Stitched"
    /\ split_image

(* export takes &self: the Stitched value outlives the call, whether it    *)
(* returned or panicked, and export can be called on it again.             *)
ExportAgain ==
    /\ \/ pc = "exported"
       \/ pc = "panicked" /\ result = <<"panic">>
    /\ exports < MaxExports
    /\ split_image

PageTask_InPlace(index) ==
    /\ pc = "exporting"
    /\ output[index + 1] = Pending
    /\ LET job == Jobs(splitpoints)[index + 1]
           page == BuildPage(image, splitpoints, job.start, job.length, debug)
           path == output_filepath(splitpoints, index, output_filetype)
           lines == PaintRows(Buffer(View(image, job.start, job.length)),
                              skipped(splitpoints, job.start, job.length), 1)
       IN  /\ image' = IF debug /\ ~lines.panicked
                       THEN SubSeq(image, 1, job.start) \o lines.rows
                            \o SubSeq(image, job.start + job.length + 1, Len(image))
                       ELSE image
           /\ IF page.panicked \/ PaddingUnderflows(splitpoints, index)
              THEN /\ output' = [output EXCEPT ![index + 1] = Panicked]
                   /\ UNCHANGED <<pages, files>>
              ELSE /\ pages' = [pages EXCEPT ![index + 1] = Built(page.rows)]
                   /\ output' = [output EXCEPT ![index + 1] = Ok]
                   /\ files' = FileCreate(files, path, index,
                                          Encoded(output_filetype, page.rows))
    /\ UNCHANGED <<max_height, min_height, scan_interval, sensitivity,
                   finderVars, pc, debug, output_filetype, result,
                   output_directory, exports, loaderVars>>

(* The closure run for one page: build the page, create the file, encode.  *)
(* The environment decides whether File::create and the encoder succeed.   *)
PageTask(index) ==
    /\ pc = "exporting"
    /\ output[index + 1] = Pending
    /\ LET job == Jobs(splitpoints)[index + 1]
           page == BuildPage(image, splitpoints, job.start, job.length, debug)
           path == output_filepath(splitpoints, index, output_filetype)
       IN  IF page.panicked \/ PaddingUnderflows(splitpoints, index)
           THEN /\ output' = [output EXCEPT ![index + 1] = Panicked]
                /\ UNCHANGED <<pages, files>>
           ELSE /\ pages' = [pages EXCEPT ![index + 1] = Built(page.rows)]
                /\ \E outcome \in {"Ok", "PermissionDenied", "IoError", "ImageError"} :
                      /\ outcome # "Ok" => Faults(output) < MaxFaults
                      /\ output' = [output EXCEPT ![index + 1] =
                                        IF outcome = "Ok" THEN Ok ELSE Err(outcome)]
                      /\ files' =
                            CASE outcome = "Ok" ->
                                   FileCreate(files, path, index,
                                              Encoded(output_filetype, page.rows))
                              [] outcome = "ImageError" ->
                                   FileCreate(files, path, index,
                                              Partial(output_filetype))
                              [] OTHER -> files
    /\ UNCHANGED <<paramVars, finderVars, pc, debug, output_filetype, result,
                   output_directory, exports, loaderVars>>

(* .collect() and the filter of the errors, once every task has finished.  *)
Collect ==
    /\ pc = "exporting"
    /\ \A i \in 1..Len(output) : output[i] \notin {Pending, Panicked}
    /\ result' = IF Errors(output) = <<>> THEN Ok ELSE Err(Errors(output))
    /\ pc' = "exported"
    /\ UNCHANGED <<paramVars, finderVars, debug, output_filetype, output, pages,
                   files, output_directory, exports, loaderVars>>

(* A panic of a page task is propagated to the caller of split_image; the  *)
(* tasks that had not started yet may never run.                           *)
Unwind ==
    /\ pc = "exporting"
    /\ \E i \in 1..Len(output) : output[i] = Panicked
    /\ result' = <<"panic">>
    /\ pc' = "panicked"
    /\ UNCHANGED <<paramVars, finderVars, debug, output_filetype, output, pages,
                   files, output_directory, exports, loaderVars>>

-----------------------------------------------------------------------------
(* The strips the exporter specification starts from: uniform rows,        *)
(* rows of increasing roughness and rows of decreasing roughness, each row *)
(* with its own content.                                                   *)

Flat(h) == [i \in 1..h |-> [j \in 1..StripWidth |-> i - 1]]

Ramp(h) == [i \in 1..h |-> [j \in 1..StripWidth |-> IF j = 1 THEN 0 ELSE i]]

Slope(h) == [i \in 1..h |-> [j \in 1..StripWidth |-> IF j = 1 THEN U8MAX ELSE i]]

ExportStrips(h) == {Flat(h), Ramp(h), Slope(h)}

InitExport ==
    /\ \E h \in 0..MaxExportRows : image \in ExportStrips(h)
    /\ max_height \in 0..MaxMaxHeight
    /\ min_height \in 0..max_height
    /\ scan_interval \in 0..MaxScanInterval
    /\ sensitivity \in {0, U8MAX}
    /\ splitpoints = <<Cut(0)>>
    /\ cursor = max_height + 1
    /\ iterations = 0
    /\ pc = "loop"
    /\ NotExporting
    /\ NotLoading

PageTasks == \E index \in 0..(Len(output) - 1) : PageTask(index)

NextExport ==
    \/ Iterate
    \/ Return
    \/ Export
    \/ PageTasks
    \/ Collect
    \/ Unwind

SpecExport == InitExport /\ [][NextExport]_vars

(* The exporter on long uniform strips cut into many short pages.          *)
InitNumbering ==
    /\ \E h \in 0..MaxNumberedRows : image = Flat(h)
    /\ max_height \in 2..3
    /\ min_height = 0
    /\ scan_interval = 1
    /\ sensitivity = U8MAX
    /\ splitpoints = <<Cut(0)>>
    /\ cursor = max_height + 1
    /\ iterations = 0
    /\ pc = "loop"
    /\ NotExporting
    /\ NotLoading

SpecNumbering == InitNumbering /\ [][NextExport]_vars

(* export called repeatedly on one Stitched value, on short strips.        *)
InitReexport ==
    /\ \E h \in 0..MaxReexportRows : image \in {Flat(h), Ramp(h)}
    /\ max_height = 3
    /\ min_height = 0
    /\ scan_interval = 1
    /\ sensitivity \in {0, U8MAX}
    /\ splitpoints = <<Cut(0)>>
    /\ cursor = max_height + 1
    /\ iterations = 0
    /\ pc = "loop"
    /\ NotExporting
    /\ NotLoading

NextReexport ==
    \/ NextExport
    \/ ExportAgain

SpecReexport == InitReexport /\ [][NextReexport]_vars

-----------------------------------------------------------------------------
(* The loader, and the Stitcher from Empty to the end of an export         *)

(* Before stitch is called there are no parameters and no splitpoints.     *)
NotStitching ==
    /\ image = <<>>
    /\ max_height = 0
    /\ min_height = 0
    /\ scan_interval = 0
    /\ sensitivity = 0
    /\ splitpoints = <<>>
    /\ cursor = 0
    /\ iterations = 0

Widths == {None} \cup {Some(w) : w \in 0..(StripWidth + 1)}

(* Either a directory (its entries in the order read_dir yields them, a    *)
(* sort order) or the caller's list of paths; a width; ignore_unloadable.  *)
InitLoad ==
    /\ pc = "Empty"
    /\ \/ /\ sort \in {"Logical", "Natural"}
          /\ entries \in {s \in SeqsUpTo(SourceFiles, MaxSources) : Distinct(s)}
          /\ paths = <<>>
       \/ /\ sort = "none"
          /\ entries = <<>>
          /\ paths \in SeqsUpTo(SourceFiles, MaxSources)
    /\ width \in Widths
    /\ ignore_unloadable \in BOOLEAN
    /\ decoded = <<>>
    /\ completion = <<>>
    /\ load_result = NoResult
    /\ NotStitching
    /\ NotExporting

NextLoad ==
    \/ load
    \/ load_dir
    \/ DecodeTasks
    \/ LoadFails
    \/ Combine

SpecLoad == InitLoad /\ [][NextLoad]_vars

(* Stitcher<Loaded>::stitch: the call of find_splitpoints on the loaded    *)
(* strip, up to the start of its loop.                                     *)
stitch ==
    /\ pc = "Loaded"
    /\ \E target_height \in 1..MaxStitchHeight, sens \in {0, U8MAX} :
          /\ max_height' = target_height
          /\ sensitivity' = sens
          /\ cursor' = target_height + 1
    /\ min_height' = 0
    /\ scan_interval' = 1
    /\ splitpoints' = <<Cut(0)>>
    /\ iterations' = 0
    /\ pc' = "loop"
    /\ UNCHANGED <<image, exportVars, loaderVars>>

(* The sources of the strips that go through stitch and export: a source   *)
(* of the strip's width, one that is resized, one whose decoding fails and *)
(* one that cannot be read at all.                                         *)
StitcherFiles ==
    {f \in SourceFiles : f.name \in {NumberedName(<<8>>, jpg),
                                     NumberedName(<<9>>, jpg),
                                     NumberedName(<<0, 1, 0>>, png),
                                     NumberedName(<<1, 2>>, jpg)}}

InitStitcher ==
    /\ pc = "Empty"
    /\ \/ /\ sort \in {"Logical", "Natural"}
          /\ entries \in {s \in SeqsUpTo(StitcherFiles, MaxStitcherSources) :
                             Distinct(s)}
          /\ paths = <<>>
       \/ /\ sort = "none"
          /\ entries = <<>>
          /\ paths \in SeqsUpTo(StitcherFiles, MaxStitcherSources)
    /\ width = Some(StripWidth)
    /\ ignore_unloadable \in BOOLEAN
    /\ decoded = <<>>
    /\ completion = <<>>
    /\ load_result = NoResult
    /\ NotStitching
    /\ NotExporting

NextStitcher ==
    \/ NextLoad
    \/ stitch
    \/ NextExport

SpecStitcher == InitStitcher /\ [][NextStitcher]_vars

-----------------------------------------------------------------------------
(* Properties of find_splitpoints                                          *)

Returned == pc = "Stitched"

StrictlyIncreasing(s) == \A i \in 1..(Len(s) - 1) : s[i] < s[i + 1]

Gaps(s) == {s[i + 1] - s[i] : i \in 1..(Len(s) - 1)}

BoundaryAndOrder ==
    /\ Head(splitpoints) = Cut(0)
    /\ splitpoints[Len(splitpoints)] = Cut(height(image))
    /\ StrictlyIncreasing(CutRowsOf(splitpoints))

(* C1 as stated: whenever find_splitpoints returns, the sequence starts    *)
(* with Cut(0), ends with Cut(H) and its Cut rows strictly increase, for   *)
(* every strip.                                                            *)
C1_AnyStrip == Returned => BoundaryAndOrder

(* C1 amended: whenever find_splitpoints returns on a strip of at least    *)
(* one row, the sequence starts with Cut(0), ends with Cut(H) and its Cut  *)
(* rows strictly increase.                                                 *)
C1_NonEmptyStrip == (Returned /\ height(image) >= 1) => BoundaryAndOrder

C1_Witness ==
    /\ Returned
    /\ height(image) >= 1
    /\ Len(CutRowsOf(splitpoints)) >= 3
    /\ \E i \in 1..Len(splitpoints) : ~is_cut(splitpoints[i])

(* C2: in the returned sequence every Cut row is at least min_height rows  *)
(* after the previous Cut row, except that a strip shorter than min_height *)
(* yields exactly [Cut(0), Cut(H)].                                        *)
C2_MinHeight ==
    Returned =>
        IF height(image) < min_height
        THEN splitpoints = <<Cut(0), Cut(height(image))>>
        ELSE \A g \in Gaps(CutRowsOf(splitpoints)) : g >= min_height

(* C3: whenever find_splitpoints returns, no two consecutive Cut rows are  *)
(* more than max_height + scan_interval rows apart.                        *)
C3_MaxHeight ==
    Returned =>
        \A g \in Gaps(CutRowsOf(splitpoints)) : g <= max_height + scan_interval

C3_Witness ==
    /\ Returned
    /\ Len(CutRowsOf(splitpoints)) >= 3
    /\ max_height \in Gaps(CutRowsOf(splitpoints))
    /\ \E g \in Gaps(CutRowsOf(splitpoints)) : g < max_height

(* C4: with scan_interval >= 1 and min_height <= max_height, every loop    *)
(* iteration that starts with cursor <= strip height strictly increases    *)
(* the cursor.                                                             *)
C4_Progress ==
    [][(pc = "loop" /\ scan_interval >= 1 /\ min_height <= max_height
        /\ cursor <= height(image)) => cursor' > cursor]_vars

(* C5: a strip shorter than max_height yields exactly [Cut(0), Cut(H)].    *)
C5_ShortStrip ==
    (Returned /\ height(image) < max_height)
        => splitpoints = <<Cut(0), Cut(height(image))>>

(* Scenario A: sensitivity is 255 and the strip, taller than max_height,   *)
(* has its uniform rows exactly at max_height, 2*max_height, ...           *)
UniformRows == {r \in 0..(height(image) - 1) : MaxPixelDiff(image[r + 1]) = 0}

Multiples(m, h) == {r \in 1..(h - 1) : r % m = 0}

ScenarioA ==
    /\ sensitivity = U8MAX
    /\ max_height >= 1
    /\ height(image) > max_height
    /\ UniformRows = Multiples(max_height, height(image))

(* The Cuts placed by the windows: all but the leading Cut(0) and, once    *)
(* find_splitpoints has returned, the final Cut(H).                        *)
PlacedCuts ==
    LET last == IF Returned THEN Len(splitpoints) - 1 ELSE Len(splitpoints)
    IN  {get(splitpoints[i]) : i \in {j \in 2..last : is_cut(splitpoints[j])}}

(* C6: in scenario A every Cut that a window places is on a uniform row,   *)
(* and when find_splitpoints returns the Cuts between Cut(0) and the final *)
(* Cut(H) are exactly the uniform rows of the strip.                       *)
C6_OnUniformRows ==
    ScenarioA =>
        /\ PlacedCuts \subseteq UniformRows
        /\ Returned => PlacedCuts = UniformRows

C6_Witness ==
    /\ Returned /\ ScenarioA
    /\ Cardinality(PlacedCuts) >= 1
    /\ \E i \in 1..Len(splitpoints) : ~is_cut(splitpoints[i])
    /\ \E r1, r2 \in 0..(height(image) - 1) :
          /\ MaxPixelDiff(image[r1 + 1]) # MaxPixelDiff(image[r2 + 1])
          /\ r1 \notin UniformRows /\ r2 \notin UniformRows

(* The iteration cap only cuts off runs that no longer make progress.      *)
CapOnlyStopsHangs ==
    (pc = "loop" /\ iterations = MaxIterations /\ scan_interval >= 1)
        => LoopBody(image, splitpoints, cursor, max_height, min_height,
                    scan_interval, sensitivity).cursor = cursor

-----------------------------------------------------------------------------
(* Properties of split_image                                               *)

PageCount == Len(output)

DirExisted == output # <<>>

Finished == pc \in {"exported", "panicked"}

(* The rows r of the strip with from <= r < to.                            *)
RowsBetween(from, to) == [k \in 1..(to - from) |-> image[from + k]]

(* The row ranges between consecutive Cut rows, top to bottom.             *)
CutIndexes == {i \in 1..Len(splitpoints) : splitpoints[i].kind = "Cut"}

CutRowSet == {splitpoints[i].row : i \in CutIndexes}

NthCut(n) ==
    splitpoints[CHOOSE i \in CutIndexes :
                    Cardinality({j \in CutIndexes : j < i}) = n - 1].row

PageStart(n) == NthCut(n)

PageEnd(n) == NthCut(n + 1)

RECURSIVE Restack(_, _)
Restack(pgs, n) == IF n = 0 THEN <<>> ELSE Restack(pgs, n - 1) \o pgs[n].rows

AllBuilt == \A n \in 1..Len(pages) : pages[n].built

(* C7: with debug off, every page a task builds is the row range between   *)
(* two consecutive Cut rows, the ranges cover every row of the strip       *)
(* exactly once, and the pages stacked in page order are the strip.        *)
C7_Roundtrip ==
    (pc \in {"exporting", "exported"} /\ DirExisted /\ ~debug) =>
        /\ PageCount = Cardinality(CutIndexes) - 1
        /\ \A n \in 1..Len(pages) :
              pages[n].built => pages[n].rows = RowsBetween(PageStart(n), PageEnd(n))
        /\ \A r \in 0..(height(image) - 1) :
              Cardinality({n \in 1..PageCount : PageStart(n) <= r /\ r < PageEnd(n)}) = 1
        /\ AllBuilt => Restack(pages, Len(pages)) = image

C7_Witness ==
    /\ pc = "exported" /\ DirExisted /\ ~debug
    /\ AllBuilt
    /\ PageCount >= 3
    /\ \E i \in 1..Len(splitpoints) :
          /\ splitpoints[i].kind = "Skipped"
          /\ splitpoints[i].row \notin CutRowSet

(* The number a file name spells, and the number of decimal digits of n.   *)
RECURSIVE StemValue(_)
StemValue(stem) ==
    IF stem = <<>> THEN 0
    ELSE 10 * StemValue(SubSeq(stem, 1, Len(stem) - 1)) + stem[Len(stem)]

RECURSIVE Pow10(_)
Pow10(d) == IF d = 0 THEN 1 ELSE 10 * Pow10(d - 1)

DigitsOf(n) == CHOOSE d \in 1..20 : (d = 1 \/ Pow10(d - 1) <= n) /\ n < Pow10(d)

(* C8: page i of an export of N pages is written to the file named by the  *)
(* number i, padded with zeros to the number of digits of N, followed by   *)
(* the extension of the format.                                            *)
C8_Numbering ==
    \A f \in files : \A index \in f.writers :
        /\ StemValue(f.path.stem) = index + 1
        /\ Len(f.path.stem) = DigitsOf(PageCount)
        /\ f.path.ext = Extension(output_filetype)

(* C9: under every order of the page tasks, every output file is written   *)
(* by one task only, the file numbered i is the one of the i-th page task  *)
(* and what it holds is the i-th page, top to bottom, of the strip; every  *)
(* task that succeeded has its file.                                       *)
C9_OrderedPages ==
    /\ \A f \in files :
          LET i == StemValue(f.path.stem)
          IN  /\ f.writers = {i - 1}
              /\ i \in 1..PageCount
              /\ f.content.complete =>
                    /\ f.content.rows = pages[i].rows
                    /\ ~debug => f.content.rows = RowsBetween(PageStart(i), PageEnd(i))
    /\ \A n \in 1..PageCount :
          output[n] = Ok =>
              \E f \in files : f.writers = {n - 1} /\ f.content.complete

C9_Witness ==
    /\ pc = "exported"
    /\ result = Ok
    /\ Cardinality(files) >= 3
    /\ \A f \in files : f.content.complete /\ f.content.rows # <<>>

FailedPages == {n \in 1..PageCount : output[n][1] = "Err"}

(* C10: when the output directory exists, an export ends with every page   *)
(* attempted, and it returns Ok if no page failed and else the list of the *)
(* errors of all the failed pages.                                         *)
C10_Aggregate ==
    (Finished /\ DirExisted) =>
        /\ \A n \in 1..PageCount : output[n] # Pending
        /\ result = IF FailedPages = {} THEN Ok ELSE Err(Errors(output))
        /\ FailedPages # {} => Len(result[2]) = Cardinality(FailedPages)

(* Without a panicking page task (debug off) the errors are aggregated.    *)
AggregateWithoutDebug == ~debug => C10_Aggregate

(* C11: an export whose output directory is not a directory returns the   *)
(* error DirectoryNotFound at once, without any page task and without      *)
(* creating or writing a file; nothing of the export runs afterwards.      *)
C11_DirectoryNotFound ==
    [][/\ (exports' = exports + 1 /\ output_directory' = "not a directory")
            => /\ result' = Err(<<"DirectoryNotFound">>)
               /\ pc' = "exported"
               /\ output' = <<>>
               /\ pages' = <<>>
               /\ files' = files
       /\ (exports' = exports /\ output_directory = "not a directory")
            => UNCHANGED <<files, pages, output, result>>]_vars

C11_Witness ==
    /\ output_directory = "not a directory"
    /\ result = Err(<<"DirectoryNotFound">>)
    /\ exports = 2
    /\ \E f \in files : f.content.complete

(* The markers of the whole sequence whose row lies on page n, and the     *)
(* page after the pass that paints the `skipped` rows.                     *)
MarkersOn(n) ==
    {i \in 1..Len(splitpoints) :
        PageStart(n) <= get(splitpoints[i]) /\ get(splitpoints[i]) < PageEnd(n)}

PageAfterMarkers(n) ==
    LET start == PageStart(n)
        length == PageEnd(n) - PageStart(n)
    IN  PaintRows(Buffer(View(image, start, length)),
                  skipped(splitpoints, start, length), 1)

Line(colour) == [j \in 1..StripWidth |-> colour]

(* rows is page n with one line per marker on it, at row marker - start,   *)
(* Cut lines in one colour and Skipped lines in another, and nothing else  *)
(* painted.                                                                *)
LinesDrawn(rows, n) ==
    /\ Len(rows) = PageEnd(n) - PageStart(n)
    /\ \E cut_colour, skipped_colour \in {MarkerColour, BoundaryColour} :
          /\ cut_colour # skipped_colour
          /\ \A i \in MarkersOn(n) :
                rows[get(splitpoints[i]) - PageStart(n) + 1] =
                    Line(IF is_cut(splitpoints[i]) THEN cut_colour
                         ELSE skipped_colour)
    /\ \A r \in 1..Len(rows) :
          (\A i \in MarkersOn(n) : get(splitpoints[i]) - PageStart(n) + 1 # r)
              => rows[r] = image[PageStart(n) + r]

(* C12: in a debug export every page whose task has run has been built     *)
(* with exactly one line per marker of the whole sequence that lies on it, *)
(* at row marker - start, Cut markers in one colour and Skipped markers in *)
(* another.                                                                *)
C12_DebugLines ==
    (debug /\ DirExisted) =>
        \A n \in 1..PageCount :
            output[n] # Pending =>
                /\ pages[n].built
                /\ LinesDrawn(pages[n].rows, n)

(* The same for the pass over the `skipped` rows alone, leaving aside the  *)
(* line that is painted after it.                                          *)
MarkerPassDrawsLines ==
    (debug /\ DirExisted) =>
        \A n \in 1..PageCount :
            /\ ~PageAfterMarkers(n).panicked
            /\ LinesDrawn(PageAfterMarkers(n).rows, n)

(* The Stitched value exists: stitch has returned, and export may be       *)
(* running, have returned or have panicked.                                *)
StitchedExists ==
    \/ pc \in {"Stitched", "exporting", "exported"}
    \/ pc = "panicked" /\ result = <<"panic">>

(* C13: no step of find_splitpoints or of an export, with debug on or off, *)
(* changes a row of the strip, and once find_splitpoints has returned no   *)
(* step changes the splitpoint sequence, however often export is called.   *)
C13_StripAndSplitpointsFrozen ==
    [][/\ image' = image
       /\ StitchedExists => (StitchedExists' /\ splitpoints' = splitpoints)]_vars

C13_Witness ==
    /\ exports = 2
    /\ debug
    /\ pc = "panicked"
    /\ result = <<"panic">>
    /\ \E f \in files : f.content.complete /\ f.content.rows # <<>>
    /\ \E i \in 1..Len(splitpoints) : ~is_cut(splitpoints[i])

-----------------------------------------------------------------------------
(* Properties of the loader                                                *)

LoadReturnedStrip == pc = "Loaded"

AllLoadable == paths # <<>> /\ \A i \in 1..Len(paths) : paths[i].kind = "good"

(* The caller's width, else the least native width of the sources.         *)
ExpectedWidth ==
    IF width # None THEN width[1]
    ELSE CHOOSE m \in {paths[i].w : i \in 1..Len(paths)} :
             \A i \in 1..Len(paths) : m <= paths[i].w

(* The height of the decoded (possibly resized) source k, and the sum of   *)
(* the heights of the sources before source k.                             *)
DecodedHeight(k) == Len(decoded[k][2])

RECURSIVE RowsBefore(_)
RowsBefore(k) == IF k = 1 THEN 0 ELSE RowsBefore(k - 1) + DecodedHeight(k - 1)

(* C14: the strip load returns for a non-empty list of loadable sources    *)
(* has the target width in every row and the sum of the sources' heights   *)
(* as its height, and source k fills the rows that start at the sum of the *)
(* heights of the sources before it.                                       *)
C14_StripLayout ==
    (LoadReturnedStrip /\ AllLoadable) =>
        /\ \A r \in 1..Len(image) : Len(image[r]) = ExpectedWidth
        /\ \A k \in 1..Len(paths) : Width(decoded[k][2]) = ExpectedWidth
        /\ Len(image) = RowsBefore(Len(paths) + 1)
        /\ \A k \in 1..Len(paths) : \A r \in 1..DecodedHeight(k) :
              image[RowsBefore(k) + r] = decoded[k][2][r]

C14_Witness ==
    /\ LoadReturnedStrip /\ AllLoadable
    /\ width = None
    /\ Len(paths) = 3
    /\ \E k \in 1..3 : paths[k].w # ExpectedWidth /\ DecodedHeight(k) # paths[k].h
    /\ \E j, k \in 1..3 : DecodedHeight(j) # DecodedHeight(k)

(* What the sources ps contribute to a strip of width w, top to bottom in  *)
(* the order of ps: the pixels of each source that can be decoded.         *)
RECURSIVE InOrder(_, _)
InOrder(ps, w) ==
    IF ps = <<>> THEN <<>>
    ELSE LET d == Decode(Head(ps), w)
         IN  (IF d[1] = "Ok" THEN d[2] ELSE <<>>) \o InOrder(Tail(ps), w)

(* C15: whatever the order in which the decode tasks finish, the strip     *)
(* holds the sources top to bottom in the order of the path list.          *)
C15_InputOrder ==
    LoadReturnedStrip => image = InOrder(paths, target_width(paths, width))

C15_Witness ==
    /\ LoadReturnedStrip
    /\ completion = <<3, 1, 2>>
    /\ \A i \in 1..3 : decoded[i][1] = "Ok"
    /\ Cardinality({paths[i] : i \in 1..3}) = 3

Remaining == SelectSeq(paths, LAMBDA f : f.kind = "good")

(* C16: with ignore_unloadable, load_images neither returns an error nor   *)
(* aborts, whichever sources fail to decode, and the strip it returns is   *)
(* built from the sources that can be decoded, in their input order.       *)
C16_IgnoreUnloadable ==
    ignore_unloadable =>
        /\ load_result \notin {Err("ImageError"), <<"panic">>}
        /\ LoadReturnedStrip =>
              image = InOrder(Remaining, target_width(paths, width))

(* The same when the caller gives a width of at least 1 or a source whose  *)
(* header can be read.                                                     *)
IgnoreUnloadableWithAWidth ==
    (/\ width # Some(0)
     /\ width = None => \E i \in 1..Len(paths) : paths[i].kind # "unreadable")
        => C16_IgnoreUnloadable

(* find_images has returned the list of paths.                             *)
Discovered ==
    /\ sort # "none"
    /\ pc # "Empty"
    /\ load_result \notin {Err("ExpectedDirectory"), Err("NoImagesInDirectory")}

(* A file name as its runs of digits, each one number, and its other       *)
(* characters.                                                             *)
RECURSIVE RunEnd(_, _)
RunEnd(s, i) == IF IsDigit(s, i + 1) THEN RunEnd(s, i + 1) ELSE i

RECURSIVE RunValue(_, _, _)
RunValue(s, i, j) ==
    IF j < i THEN 0 ELSE 10 * RunValue(s, i, j - 1) + (s[j] - Digit(0))

RECURSIVE Tokens(_, _)
Tokens(s, i) ==
    IF i > Len(s) THEN <<>>
    ELSE IF IsDigit(s, i)
         THEN <<[number |-> TRUE, value |-> RunValue(s, i, RunEnd(s, i))]>>
              \o Tokens(s, RunEnd(s, i) + 1)
         ELSE <<[number |-> FALSE, value |-> s[i]]>> \o Tokens(s, i + 1)

(* s is before t when, at the first place where they differ, s has ended   *)
(* or has the lesser element.                                              *)
Before(s, t, Less(_, _)) ==
    \E k \in 1..(Len(t)) :
        /\ k <= Len(s) + 1
        /\ \A i \in 1..(k - 1) : s[i] = t[i]
        /\ k <= Len(s) => Less(s[k], t[k])

LexicographicallyBefore(a, b) == Before(a, b, LAMBDA x, y : x < y)

(* Numeric runs by their value, other characters by their code; a run and  *)
(* a character are not ordered here.                                       *)
NaturallyBefore(a, b) ==
    Before(Tokens(a, 1), Tokens(b, 1),
           LAMBDA x, y : x.number = y.number /\ x.value < y.value)

NamesOf(ps) == [i \in 1..Len(ps) |-> ps[i].name]

Eligible == {entries[i] : i \in {j \in 1..Len(entries) : IsImage(entries[j].name)}}

Scenario8910 ==
    {entries[i].name : i \in 1..Len(entries)} =
        {NumberedName(<<9>>, jpg), NumberedName(<<1, 0>>, jpg), NumberedName(<<8>>, jpg)}

(* C17: the list find_images returns is a permutation of the eligible      *)
(* entries; under Natural no file is behind one that it precedes by the    *)
(* numeric value of a run of digits, under Logical none is behind one that *)
(* it precedes lexicographically; 9.jpg, 10.jpg, 8.jpg give 8, 9, 10 under *)
(* Natural and 10, 8, 9 under Logical.                                     *)
C17_SortPolicies ==
    Discovered =>
        /\ Len(paths) = Cardinality(Eligible)
        /\ {paths[i] : i \in 1..Len(paths)} = Eligible
        /\ sort = "Natural" =>
              \A i, j \in 1..Len(paths) :
                  i < j => ~NaturallyBefore(paths[j].name, paths[i].name)
        /\ sort = "Logical" =>
              \A i, j \in 1..Len(paths) :
                  i < j => ~LexicographicallyBefore(paths[j].name, paths[i].name)
        /\ (Scenario8910 /\ sort = "Natural") =>
              NamesOf(paths) = <<NumberedName(<<8>>, jpg), NumberedName(<<9>>, jpg),
                                 NumberedName(<<1, 0>>, jpg)>>
        /\ (Scenario8910 /\ sort = "Logical") =>
              NamesOf(paths) = <<NumberedName(<<1, 0>>, jpg), NumberedName(<<8>>, jpg),
                                 NumberedName(<<9>>, jpg)>>

(* The same for directories in which no run of digits starts with a zero.  *)
NoLeadingZero ==
    \A i \in 1..Len(entries) :
        \A k \in 1..Len(entries[i].name) :
            (entries[i].name[k] = Digit(0)) =>
                (k > 1 /\ IsDigit(entries[i].name, k - 1))

SortPoliciesWithoutLeadingZeros == NoLeadingZero => C17_SortPolicies

-----------------------------------------------------------------------------
(* Properties of the Stitcher                                              *)

(* The state of the Stitcher value the caller holds: "none" once a load    *)
(* has failed or a call has panicked before a Stitched value existed.      *)
TypeState ==
    IF pc \in {"Empty", "loading"} THEN "Empty"
    ELSE IF pc = "Loaded" THEN "Loaded"
    ELSE IF pc \in {"loop", "break"} THEN "stitch"
    ELSE IF StitchedExists THEN "Stitched"
    ELSE "none"

Forward ==
    { <<"Empty", "Loaded">>, <<"Empty", "none">>, <<"Loaded", "stitch">>,
      <<"stitch", "Stitched">>, <<"stitch", "none">> }

(* C18: the Stitcher only moves Empty -> Loaded -> Stitched; it becomes     *)
(* Loaded only when load returns Ok, the loader only runs on an Empty       *)
(* stitcher, find_splitpoints only after the load and export only on a      *)
(* Stitched one; the strip is set by the load and the splitpoints by        *)
(* stitch, and neither changes afterwards.                                  *)
C18_TypeStates ==
    [][/\ TypeState' = TypeState \/ <<TypeState, TypeState'>> \in Forward
       /\ (TypeState' = "Loaded" /\ TypeState # "Loaded") => load_result' = Ok
       /\ TypeState' \in {"Loaded", "stitch", "Stitched"} => load_result' = Ok
       /\ loaderVars' # loaderVars => TypeState = "Empty"
       /\ image' # image => (TypeState = "Empty" /\ TypeState' = "Loaded")
       /\ splitpoints' # splitpoints => TypeState \in {"Loaded", "stitch"}
       /\ exportVars' # exportVars => TypeState = "Stitched"]_vars

C18_Witness ==
    /\ pc = "exported"
    /\ result = Ok
    /\ sort = "Natural"
    /\ Len(paths) = 2
    /\ load_result = Ok
    /\ Len(CutRowsOf(splitpoints)) >= 3
    /\ \E f \in files : f.content.complete /\ f.content.rows = SubSeq(image, 1, 2)

-----------------------------------------------------------------------------
(* Properties of one window of find_splitpoints                            *)

(* An iteration of the loop is taken, with a scan interval of at least 1.  *)
WindowStep == pc = "loop" /\ scan_interval >= 1 /\ iterations' = iterations + 1

limit == U8MAX - sensitivity

(* The triples the window visits, the largest score of a triple, and the   *)
(* first row of a triple.                                                  *)
Visited ==
    row_max_pixel_diffs(image, cursor, max_height + 1, min_height, scan_interval)

TripleMax(t) == Max(t[1][2], Max(t[2][2], t[3][2]))

FirstRow(t) == t[1][1]

NoCleanTriple == \A k \in 1..Len(Visited) : TripleMax(Visited[k]) > limit

(* The first of the triples whose largest score is least.                  *)
LeastRough ==
    CHOOSE k \in 1..Len(Visited) :
        /\ \A j \in 1..(k - 1) : TripleMax(Visited[j]) > TripleMax(Visited[k])
        /\ \A j \in k..Len(Visited) : TripleMax(Visited[j]) >= TripleMax(Visited[k])

(* C19: a window in which no triple is clean records the first row of      *)
(* each triple as Skipped, except that the first row of the first triple   *)
(* with the least triple-max is a Cut, and moves the cursor to that row +  *)
(* max_height + 1.                                                         *)
C19_LeastRoughPromoted ==
    [][(WindowStep /\ Visited # <<>> /\ NoCleanTriple) =>
          /\ splitpoints' = splitpoints \o
                [k \in 1..Len(Visited) |->
                    IF k = LeastRough THEN Cut(FirstRow(Visited[k]))
                    ELSE Skipped(FirstRow(Visited[k]))]
          /\ cursor' = FirstRow(Visited[LeastRough]) + max_height + 1]_vars

(* The rows the window samples according to the band that ends at the      *)
(* cursor: from row cursor - 1 down, every scan_interval rows, not below   *)
(* cursor - (max_height + 1 - min_height), the rows the strip has.         *)
BandRows ==
    {r \in 0..(height(image) - 1) :
        /\ cursor - (max_height + 1 - min_height) <= r
        /\ r < cursor
        /\ (cursor - 1 - r) % scan_interval = 0}

RECURSIVE Descending(_)
Descending(S) ==
    IF S = {} THEN <<>>
    ELSE LET top == CHOOSE r \in S : \A q \in S : q <= r
         IN  <<top>> \o Descending(S \ {top})

Score(r) == MaxPixelDiff(image[r + 1])

BandTriples ==
    LET rows == Descending(BandRows)
    IN  [k \in 1..Max(Len(rows) - 2, 0) |-> <<rows[k], rows[k + 1], rows[k + 2]>>]

Clean(t) == \A i \in 1..3 : Score(t[i]) <= limit

FirstClean ==
    CHOOSE k \in 1..Len(BandTriples) :
        Clean(BandTriples[k]) /\ \A j \in 1..(k - 1) : ~Clean(BandTriples[j])

(* A window with a clean triple among the triples of the band's sampled    *)
(* rows records the first rows of the triples before the first clean one   *)
(* as Skipped, then the first row of that triple as Cut, nothing after it, *)
(* and moves the cursor to that row + max_height + 1; a window whose band  *)
(* has no triple records nothing.                                          *)
ScansTheBand ==
    WindowStep =>
        /\ (\E k \in 1..Len(BandTriples) : Clean(BandTriples[k])) =>
              /\ splitpoints' = splitpoints \o
                    [k \in 1..FirstClean |->
                        IF k = FirstClean THEN Cut(BandTriples[k][1])
                        ELSE Skipped(BandTriples[k][1])]
              /\ cursor' = BandTriples[FirstClean][1] + max_height + 1
        /\ BandTriples = <<>> => splitpoints' = splitpoints

(* C20: every window scans the rows of the band [cursor - (max_height + 1  *)
(* - min_height), cursor), sampled every scan_interval rows from row       *)
(* cursor - 1 down, and accepts the first triple whose three scores are    *)
(* at most 255 - sensitivity.                                              *)
C20_WindowScan == [][ScansTheBand]_vars

(* The same for the windows whose cursor is inside the strip.              *)
WindowScanInsideStrip == [][cursor <= height(image) => ScansTheBand]_vars

-----------------------------------------------------------------------------
(* Properties of the markers find_splitpoints records                      *)

AllCuts(sps) == \A i \in 1..Len(sps) : is_cut(sps[i])

(* What a window does when its first candidate is accepted and nothing is  *)
(* promoted: it appends the first row of its first triple as a Cut and     *)
(* leaves the markers recorded before untouched; with no triple it records *)
(* nothing.                                                                *)
FirstCandidateAccepted ==
    IF Visited = <<>> THEN splitpoints' = splitpoints
    ELSE splitpoints' = Append(splitpoints, Cut(FirstRow(Visited[1])))

(* C21: with sensitivity 0 the sequence never holds a Skipped marker,      *)
(* whatever the pixels of the strip, and every window accepts its first    *)
(* candidate, so that no marker is promoted.                               *)
C21_ZeroSensitivity ==
    /\ [](sensitivity = 0 => AllCuts(splitpoints))
    /\ [][(sensitivity = 0 /\ WindowStep) => FirstCandidateAccepted]_vars

C21_Witness ==
    /\ Returned
    /\ sensitivity = 0
    /\ Len(splitpoints) >= 4
    /\ \E i \in 2..(Len(splitpoints) - 1) :
          /\ get(splitpoints[i]) < height(image)
          /\ Score(get(splitpoints[i])) = U8MAX

-----------------------------------------------------------------------------
(* Properties of the debug lines                                           *)

JobOf(n) == Jobs(splitpoints)[n]

(* C22: in a debug export no page task paints a line outside its page:     *)
(* building the page of any job, marker lines and boundary line included,  *)
(* does not panic.                                                         *)
C22_DebugLinesInsidePage ==
    (pc = "exporting" /\ debug) =>
        \A n \in 1..Len(Jobs(splitpoints)) :
            ~BuildPage(image, splitpoints, JobOf(n).start, JobOf(n).length,
                       TRUE).panicked

(* The same for the marker lines alone.                                    *)
MarkerLinesInsidePage ==
    (pc = "exporting" /\ debug) =>
        \A n \in 1..Len(Jobs(splitpoints)) :
            ~PaintRows(Buffer(View(image, JobOf(n).start, JobOf(n).length)),
                       skipped(splitpoints, JobOf(n).start, JobOf(n).length),
                       1).panicked

(* Without debug no page is painted on, and building a page never panics.  *)
PagesWithoutDebug ==
    (pc = "exporting" /\ ~debug) =>
        \A n \in 1..Len(Jobs(splitpoints)) :
            BuildPage(image, splitpoints, JobOf(n).start, JobOf(n).length, debug)
                = Buffer(View(image, JobOf(n).start, JobOf(n).length))

-----------------------------------------------------------------------------
(* Properties of the promotion                                             *)

CutCount(sps) == Len(CutRowsOf(sps))

(* Two markers of the sequence on the same row, the later one a Cut that   *)
(* was promoted: the triple that starts at its row is not clean.           *)
PromotedOverEarlierMarker(i, j) ==
    /\ i < j
    /\ get(splitpoints[i]) = get(splitpoints[j])
    /\ is_cut(splitpoints[j])
    /\ get(splitpoints[j]) - 2 * scan_interval >= 0
    /\ get(splitpoints[j]) < height(image)
    /\ ~Clean(<<get(splitpoints[j]), get(splitpoints[j]) - scan_interval,
                get(splitpoints[j]) - 2 * scan_interval>>)

(* C23: no step of the scan lowers the number of Cut markers, and a window *)
(* leaves every marker recorded before it as it was: the marker that the   *)
(* promotion switches is one the window itself has recorded.               *)
C23_PromotionKeepsCuts ==
    [][/\ CutCount(splitpoints') >= CutCount(splitpoints)
       /\ WindowStep =>
              /\ Len(splitpoints') >= Len(splitpoints)
              /\ SubSeq(splitpoints', 1, Len(splitpoints)) = splitpoints]_vars

C23_Witness ==
    /\ Returned
    /\ \E i, j \in 2..(Len(splitpoints) - 1) :
          /\ PromotedOverEarlierMarker(i, j)
          /\ ~is_cut(splitpoints[i])

-----------------------------------------------------------------------------
(* Properties of the rows recorded by successive windows                   *)

(* The parameters are not degenerate: the scan interval is at least 1,     *)
(* 1 <= min_height <= max_height, and a window samples at least three rows *)
(* (the first window holds the rows the strip has, at most max_height + 1  *)
(* - min_height of them).                                                  *)
BandSize == Min(max_height + 1 - min_height, height(image))

SampledRows == (BandSize + scan_interval - 1) \div scan_interval

NonDegenerate ==
    /\ scan_interval >= 1
    /\ 1 <= min_height /\ min_height <= max_height
    /\ SampledRows >= 3

SameRow(i, j) == i < j /\ get(splitpoints[i]) = get(splitpoints[j])

Markers == 1..Len(splitpoints)

(* C24 as stated: with non-degenerate parameters no row index occurs twice *)
(* in the sequence that find_splitpoints returns.                          *)
C24_NoRowTwice ==
    (Returned /\ NonDegenerate) => \A i, j \in Markers : ~SameRow(i, j)

(* The rows of the markers a window appends are pairwise distinct.         *)
WindowRowsDistinct ==
    \A i, j \in (Len(splitpoints) + 1)..Len(splitpoints') :
        i < j => get(splitpoints'[i]) # get(splitpoints'[j])

(* C24 amended: with non-degenerate parameters a row recorded as Cut is    *)
(* never recorded again (of two markers on the same row the earlier one is *)
(* a Skipped), and no window records a row twice.                          *)
C24_CutRowsNotRecordedAgain ==
    /\ [](NonDegenerate =>
            \A i, j \in Markers : SameRow(i, j) => ~is_cut(splitpoints[i]))
    /\ [][(NonDegenerate /\ WindowStep) => WindowRowsDistinct]_vars

C24_Witness ==
    /\ Returned
    /\ NonDegenerate
    /\ CutCount(splitpoints) >= 3
    /\ \E i, j \in Markers : SameRow(i, j)

====
